---------------------------- MODULE Spec2Model ----------------------------
(***************************************************************************)
(* Model of the coupons widget (src/src/auto-init.ts, class CouponsWidget):*)
(* the coupon-window selection convertMOEXData / getCouponStatus, and the  *)
(* widget's load / updateData / destroy life cycle around the remote fetch.*)
(*                                                                         *)
(* Dates.  The code only ever uses a coupon's date string in three ways:   *)
(* new Date(s).getTime() (a number, or NaN when s does not parse), the     *)
(* string itself under === , and formatDate(s).  A date string is therefore*)
(* modelled as a record [valid, time, form]: time is the parsed timestamp, *)
(* counted in whole days on the scale on which currentDate (local midnight *)
(* of "today") is measured; valid = FALSE stands for a string whose        *)
(* timestamp is NaN; form tells apart two spellings of the same instant.   *)
(***************************************************************************)
EXTENDS Integers, Sequences, FiniteSets, TLC

(* ------------------------------ bounds -------------------------------- *)
\* Largest timestamp of a coupon date and of "today".
MaxTime == 2
\* Longest input made of plainly written, parseable dates.
MaxLen == 6
\* Longest input drawn from the full alphabet (two spellings, unparseable).
MaxRichLen == 3
\* Longest input whose records vary in rate and amount.
MaxValuedLen == 1

Times == 0 .. MaxTime

(* --------------------------- date strings ----------------------------- *)
DateStr(t, f) == [valid |-> TRUE, time |-> t, form |-> f]
InvalidDate == [valid |-> FALSE, time |-> 0, form |-> "iso"]
PlainDates == {DateStr(t, "iso") : t \in Times}
RichDates == {DateStr(t, f) : t \in Times, f \in {"iso", "alt"}} \cup {InvalidDate}

\* A raw MOEX record; valueprc / value_rub may be absent (present = FALSE).
RawValue(p, n) == [present |-> p, num |-> n]
RawCoupon(d) ==
    [coupondate |-> d, valueprc |-> RawValue(TRUE, 7), value_rub |-> RawValue(TRUE, 35)]

\* new Date(s).getTime() is NaN
IsNaN(d) == ~d.valid

\* The sort comparator, new Date(a).getTime() - new Date(b).getTime(), as
\* Array.prototype.sort reads it: a NaN result counts as +0.
CompareDates(a, b) ==
    IF IsNaN(a.coupondate) \/ IsNaN(b.coupondate) THEN 0
    ELSE a.coupondate.time - b.coupondate.time

\* new Date(coupon.coupondate) >= currentDate : false when the date is NaN.
IsUpcoming(coupon, today) ==
    /\ ~IsNaN(coupon.coupondate)
    /\ coupon.coupondate.time >= today

(* ------------------------------- sort --------------------------------- *)
RECURSIVE InsertSorted(_, _)
InsertSorted(s, x) ==
    IF s = <<>> THEN <<x>>
    ELSE IF CompareDates(s[Len(s)], x) <= 0 THEN Append(s, x)
    ELSE Append(InsertSorted(SubSeq(s, 1, Len(s) - 1), x), s[Len(s)])

RECURSIVE StableSort(_)
StableSort(s) ==
    IF s = <<>> THEN <<>>
    ELSE InsertSorted(StableSort(SubSeq(s, 1, Len(s) - 1)), s[Len(s)])

\* ECMAScript's condition on a comparator over the values being sorted: only
\* then is the result the stable, ordered permutation.
ConsistentComparator(s) ==
    LET E == {s[i] : i \in 1 .. Len(s)} IN
    \A a \in E, b \in E, c \in E :
        /\ (CompareDates(a, b) = 0 /\ CompareDates(b, c) = 0) => CompareDates(a, c) = 0
        /\ (CompareDates(a, b) < 0 /\ CompareDates(b, c) < 0) => CompareDates(a, c) < 0
        /\ (CompareDates(a, b) > 0 /\ CompareDates(b, c) > 0) => CompareDates(a, c) > 0

PermutationsOf(s) ==
    LET n == Len(s)
        P == {p \in [1 .. n -> 1 .. n] : \A i, j \in 1 .. n : p[i] = p[j] => i = j}
    IN  {[i \in 1 .. n |-> s[p[i]]] : p \in P}

SortNotApplied(couponsData) == {couponsData}

\* [...couponsData].sort(cmp): the values sortedCoupons can take.  With an
\* inconsistent comparator (a NaN date among different valid ones) the order
\* is implementation-defined: any permutation.
SortOutcomes(couponsData) ==
    IF ConsistentComparator(couponsData) THEN {StableSort(couponsData)}
    ELSE PermutationsOf(couponsData)

(* ------------------------- window selection --------------------------- *)
\* Array.prototype.findIndex, 0-based, -1 when no element matches.
FindIndex(sortedCoupons, today) ==
    LET hits == {i \in 1 .. Len(sortedCoupons) : IsUpcoming(sortedCoupons[i], today)} IN
    IF hits = {} THEN -1
    ELSE (CHOOSE i \in hits : \A j \in hits : i <= j) - 1

FirstUpcomingIndex(sortedCoupons, today) ==
    IF FindIndex(sortedCoupons, today) = -1 THEN Len(sortedCoupons)
    ELSE FindIndex(sortedCoupons, today)

Max(a, b) == IF a >= b THEN a ELSE b
Min(a, b) == IF a <= b THEN a ELSE b

StartIndexThreeBack(firstUpcomingIndex) == Max(0, firstUpcomingIndex - 3)

StartIndex(firstUpcomingIndex) == Max(0, firstUpcomingIndex - 2)

EndIndexAlwaysFive(len, firstUpcomingIndex) == Min(len, firstUpcomingIndex + 5)

EndIndexLegacy(len, firstUpcomingIndex) == Min(len, firstUpcomingIndex + 3)

EndIndex(len, firstUpcomingIndex) ==
    Min(len, IF StartIndex(firstUpcomingIndex) = 0
             THEN firstUpcomingIndex + 5
             ELSE firstUpcomingIndex + 3)

\* Array.prototype.slice(start, end) with 0 <= start, end <= length
Slice(s, start, end) == SubSeq(s, start + 1, end)

NoDate == [valid |-> FALSE, time |-> 0, form |-> "null"]

CurrentCouponDate(sortedCoupons, firstUpcomingIndex) ==
    IF firstUpcomingIndex < Len(sortedCoupons)
    THEN sortedCoupons[firstUpcomingIndex + 1].coupondate
    ELSE NoDate

(* --------------------------- classification --------------------------- *)
GetCouponStatusDateFirst(couponDate, today, currentCouponDate) ==
    IF ~IsNaN(couponDate) /\ couponDate.time < today THEN "disabled"
    ELSE IF ~IsNaN(couponDate) /\ couponDate.time = today THEN "upcoming"
    ELSE IF couponDate = currentCouponDate THEN "current"
    ELSE ""

GetCouponStatus(couponDate, today, currentCouponDate) ==
    IF couponDate = currentCouponDate THEN "current"
    ELSE IF ~IsNaN(couponDate) /\ couponDate.time < today THEN "disabled"
    ELSE IF ~IsNaN(couponDate) /\ couponDate.time = today THEN "upcoming"
    ELSE ""

\* formatDate: DD.MM.YYYY of the parsed date; the spelling is lost, and an
\* unparseable string gives NaN.NaN.NaN.
FormatDate(dateString) == [nan |-> IsNaN(dateString), day |-> dateString.time]

\* value ? `${value}<unit>` : "-"   (a JS truthiness test)
Truthy(v) == v.present /\ v.num # 0
FormatValue(v, unit) ==
    IF Truthy(v) THEN [dash |-> FALSE, num |-> v.num, unit |-> unit]
    ELSE [dash |-> TRUE, num |-> 0, unit |-> ""]

MapCoupon(coupon, today, currentCouponDate) ==
    LET status == GetCouponStatus(coupon.coupondate, today, currentCouponDate) IN
    [ paymentDate |-> FormatDate(coupon.coupondate),
      rate        |-> FormatValue(coupon.valueprc, "%"),
      amount      |-> FormatValue(coupon.value_rub, "rub"),
      current     |-> (status = "current"),
      disabled    |-> (status = "disabled") ]

\* convertMOEXData after the sort: sortedCoupons is the sorted copy.
SelectAndMap(sortedCoupons, today) ==
    LET f == FirstUpcomingIndex(sortedCoupons, today)
        selectedCoupons == Slice(sortedCoupons, StartIndex(f), EndIndex(Len(sortedCoupons), f))
        ccd == CurrentCouponDate(sortedCoupons, f)
    IN  [i \in 1 .. Len(selectedCoupons) |-> MapCoupon(selectedCoupons[i], today, ccd)]

\* The results convertMOEXData(couponsData) can return when "today" is today.
ConvertMOEXData(couponsData, today) ==
    IF Len(couponsData) = 0 THEN {<<>>}
    ELSE {SelectAndMap(s, today) : s \in SortOutcomes(couponsData)}

(* ============================== state ================================= *)
\* couponsData, currentDate, sortedCoupons, result, pc: one call of
\*   convertMOEXData (its argument, "today", its local sortedCoupons, its
\*   return value, and whether it has returned).  The widget reads the clock
\*   currentDate too.
\* dom:    containerId -> what the element with that id displays.
\* widget: instance -> [containerId, isin, data]  (this.options, this.data).
\* loads:  the loadData() calls made so far, in the order they started:
\*   [w, stage, promise], stage being the position of the async function.
\* received: load index -> the body its response.json() resolved with
\*   (loadFromMOEX's local `data`), for the loads that got one.
VARIABLES couponsData, currentDate, sortedCoupons, result, pc, dom, widget, loads,
          received

vars == <<couponsData, currentDate, sortedCoupons, result, pc, dom, widget, loads,
          received>>

convVars == <<couponsData, sortedCoupons, result, pc>>
widgetVars == <<dom, widget, loads, received>>

(* ===================== the selection, run on its own =================== *)
RECURSIVE SeqsUpTo(_, _)
SeqsUpTo(S, n) ==
    IF n = 0 THEN {<<>>}
    ELSE LET shorter == SeqsUpTo(S, n - 1) IN
         shorter \cup {Append(s, x) : s \in {t \in shorter : Len(t) = n - 1}, x \in S}

\* valueprc / value_rub as MOEX may send them: absent (null), zero, non-zero.
RawValues == {RawValue(FALSE, 0), RawValue(TRUE, 0), RawValue(TRUE, 7)}
ValuedCoupons ==
    {[coupondate |-> d, valueprc |-> p, value_rub |-> r] :
        d \in PlainDates, p \in RawValues, r \in RawValues}

Inputs ==
    SeqsUpTo({RawCoupon(d) : d \in PlainDates}, MaxLen)
        \cup SeqsUpTo({RawCoupon(d) : d \in RichDates}, MaxRichLen)
        \cup SeqsUpTo(ValuedCoupons, MaxValuedLen)

ConvInit ==
    /\ couponsData \in Inputs
    /\ currentDate \in Times
    /\ sortedCoupons = <<>>
    /\ result = <<>>
    /\ pc = "call"
    /\ dom = <<>>
    /\ widget = <<>>
    /\ loads = <<>>
    /\ received = <<>>

SortedInPlace(input, sorted) == sorted

\* The caller's array after [...couponsData].sort(...): the sort works on the
\* spread copy, so the argument keeps its records and their order.
ArgumentAfterSort(input, sorted) == input

Convert ==
    /\ pc = "call"
    /\ \E s \in (IF Len(couponsData) = 0 THEN {<<>>} ELSE SortOutcomes(couponsData)) :
          /\ sortedCoupons' = s
          /\ result' = (IF Len(couponsData) = 0 THEN <<>> ELSE SelectAndMap(s, currentDate))
          /\ couponsData' = ArgumentAfterSort(couponsData, s)
    /\ pc' = "done"
    /\ UNCHANGED currentDate
    /\ UNCHANGED widgetVars

ConvNext == Convert

SpecConv == ConvInit /\ [][ConvNext]_vars

(* ------------- the selection on ten evenly spaced records -------------- *)
\* Widest spacing between two consecutive coupon dates.
MaxGap == 3

\* Ten records with strictly increasing dates, g days apart.
MonthlyRecords(g) == [i \in 1 .. 10 |-> RawCoupon(DateStr(g * (i - 1), "iso"))]
Swapped(s, i, j) ==
    [k \in DOMAIN s |-> IF k = i THEN s[j] ELSE IF k = j THEN s[i] ELSE s[k]]

\* The ten records in chronological order or with two of them exchanged, and
\* a today strictly between the fifth and the sixth date.
MonthlyInit ==
    /\ \E g \in 2 .. MaxGap :
          /\ \E i \in 1 .. 10, j \in 1 .. 10 :
                i <= j /\ couponsData = Swapped(MonthlyRecords(g), i, j)
          /\ currentDate \in (4 * g + 1) .. (5 * g - 1)
    /\ sortedCoupons = <<>>
    /\ result = <<>>
    /\ pc = "call"
    /\ dom = <<>>
    /\ widget = <<>>
    /\ loads = <<>>
    /\ received = <<>>

SpecMonthly == MonthlyInit /\ [][ConvNext]_vars

(* ============================ the widget ============================== *)
\* Most loadData() calls in one run.
MaxLoads == 3
\* Longest coupons list of a response body.
MaxBodyLen == 1

\* String literals of the source, transliterated to ASCII.
DefaultContainerId == "coupons-widget"
EmptyMessage == "Dannyh net"
LoadingMessage == "Zagruzka dannyh"
MoexErrorMessage == "Oshibka zagruzki dannyh s MOEX"

NullIsin == "<null>"
Isins == {"RU000A0JX0J2"}
\* if (this.options.isin)
HasIsin(isin) == isin # NullIsin /\ isin # ""

(* ------------------------- what a container shows --------------------- *)
\* kind: which child the container holds; items: the list-item entries;
\* message: the pieces of the text of an empty / loading / error element.
View(k, items, message) == [kind |-> k, items |-> items, message |-> message]
\* container.empty()
Cleared == View("cleared", <<>>, <<>>)
RenderWithoutEmptyElem(data) == View("list", data, <<>>)

\* render(): the coupons-list with the empty element or one list-item per entry
Render(data) ==
    IF Len(data) = 0 THEN View("empty", <<>>, <<EmptyMessage>>)
    ELSE View("list", data, <<>>)
ShowLoading == View("loading", <<>>, <<LoadingMessage>>)
\* the text is `Oshibka: ${message}`
ShowError(message) == View("error", <<>>, <<"Oshibka: ", message>>)

(* --------------------------- response bodies -------------------------- *)
Body(k, coupons) == [kind |-> k, coupons |-> coupons]
Bodies ==
    {Body("coupons", c) : c \in SeqsUpTo({RawCoupon(d) : d \in PlainDates}, MaxBodyLen)}
        \cup {Body("nocoupons", <<>>), Body("malformed", <<>>)}

\* Display entries a caller may hand to the constructor or to updateData.
DataChoices ==
    {<<>>,
     <<[paymentDate |-> FormatDate(DateStr(0, "iso")),
        rate |-> FormatValue(RawValue(TRUE, 7), "%"),
        amount |-> FormatValue(RawValue(TRUE, 35), "rub"),
        current |-> FALSE, disabled |-> FALSE]>>}

Load0(w, stage, promise) == [w |-> w, stage |-> stage, promise |-> promise]

\* loadData() up to its first await: showLoading(), then the fetch if an isin is set.
StartLoadData(w, isin) ==
    IF HasIsin(isin) THEN Load0(w, "fetch", "pending")
    ELSE Load0(w, "nofetch", "fulfilled")

\* new CouponsWidget({containerId, isin, data}) on a page whose elements show d0.
Constructed(d0, w, containerId, isin, data) ==
    [dom |-> [c \in (DOMAIN d0) \cup {containerId} |->
                 IF c = containerId
                 THEN (IF HasIsin(isin) THEN ShowLoading ELSE Render(data))
                 ELSE d0[c]],
     widget |-> [containerId |-> containerId, isin |-> isin, data |-> data],
     load |-> <<StartLoadData(w, isin)>>]

Init ==
    /\ couponsData = <<>> /\ sortedCoupons = <<>> /\ result = <<>> /\ pc = "widget"
    /\ currentDate = 1
    /\ received = <<>>
    /\ \E isin \in Isins \cup {NullIsin}, data \in DataChoices :
          LET c == Constructed(<<>>, 1, DefaultContainerId, isin, data) IN
          /\ dom = c.dom
          /\ widget = [w \in {1} |-> c.widget]
          /\ loads = (IF HasIsin(isin) THEN c.load ELSE <<>>)

Container(w) == widget[w].containerId
Pending(i) == loads[i].stage \in {"fetch", "json"}

\* load(isinOrUrl)
Load(w, isinOrUrl) ==
    /\ Len(loads) < MaxLoads
    /\ widget' = [widget EXCEPT ![w].isin = isinOrUrl]
    /\ dom' = [dom EXCEPT ![Container(w)] = ShowLoading]
    /\ loads' = Append(loads, StartLoadData(w, isinOrUrl))
    /\ UNCHANGED <<convVars, currentDate, received>>

\* updateData(newData)
UpdateData(w, newData) ==
    /\ widget' = [widget EXCEPT ![w].data = newData]
    /\ dom' = [dom EXCEPT ![Container(w)] = Render(newData)]
    /\ UNCHANGED <<convVars, currentDate, loads, received>>

\* destroy()
Destroy(w) ==
    /\ dom' = [dom EXCEPT ![Container(w)] = Cleared]
    /\ UNCHANGED <<convVars, currentDate, widget, loads, received>>

LoadDataRejects(i, message) ==
    /\ loads' = [loads EXCEPT ![i] = Load0(loads[i].w, "failed", "rejected")]
    /\ UNCHANGED <<dom, widget>>

\* loadData's catch: showError(message), and the promise fulfils.
LoadDataCatch(i, message) ==
    /\ dom' = [dom EXCEPT ![Container(loads[i].w)] = ShowError(message)]
    /\ loads' = [loads EXCEPT ![i] = Load0(loads[i].w, "failed", "fulfilled")]
    /\ UNCHANGED widget

\* loadFromMOEX's last two statements: this.data = ...; this.render()
LoadFromMOEXRender(i, newData) ==
    /\ widget' = [widget EXCEPT ![loads[i].w].data = newData]
    /\ dom' = [dom EXCEPT ![Container(loads[i].w)] = Render(newData)]
    /\ loads' = [loads EXCEPT ![i] = Load0(loads[i].w, "done", "fulfilled")]

\* The fetch of load i settles: it rejects, or resolves with ok false or true.
FetchSettles(i) ==
    /\ loads[i].stage = "fetch"
    /\ \/ LoadDataCatch(i, "Failed to fetch")
       \/ LoadDataCatch(i, MoexErrorMessage)
       \/ /\ loads' = [loads EXCEPT ![i].stage = "json"]
          /\ UNCHANGED <<dom, widget>>
    /\ UNCHANGED <<convVars, currentDate, received>>

\* data[1]?.coupons ?? []
ExtractCoupons(body) == IF body.kind = "coupons" THEN body.coupons ELSE <<>>

\* response.json() of load i settles: it rejects, or resolves with a body.
JsonSettles(i) ==
    /\ loads[i].stage = "json"
    /\ \/ /\ LoadDataCatch(i, "Unexpected token")
          /\ UNCHANGED received
       \/ \E body \in Bodies :
             /\ received' = (i :> body) @@ received
             /\ IF body.kind = "malformed"
                THEN LoadDataCatch(i, "Cannot read properties")
                ELSE \E r \in ConvertMOEXData(ExtractCoupons(body), currentDate) :
                        LoadFromMOEXRender(i, r)
    /\ UNCHANGED <<convVars, currentDate>>

Next ==
    \/ \E w \in DOMAIN widget, x \in Isins \cup {""} : Load(w, x)
    \/ \E w \in DOMAIN widget, d \in DataChoices : UpdateData(w, d)
    \/ \E w \in DOMAIN widget : Destroy(w)
    \/ \E i \in DOMAIN loads : FetchSettles(i)
    \/ \E i \in DOMAIN loads : JsonSettles(i)

Spec == Init /\ [][Next]_vars

(* ---------------------- two widgets on one page ------------------------ *)
\* new CouponsWidget(...) twice: the first with the default containerId, the
\* second with the default one again or with an id of its own.
InitTwo ==
    /\ couponsData = <<>> /\ sortedCoupons = <<>> /\ result = <<>> /\ pc = "widget"
    /\ currentDate = 1
    /\ received = <<>>
    /\ \E id2 \in {DefaultContainerId, "coupons-widget-2"},
          isin1 \in Isins \cup {NullIsin}, isin2 \in Isins \cup {NullIsin},
          data1 \in DataChoices, data2 \in DataChoices :
          LET c1 == Constructed(<<>>, 1, DefaultContainerId, isin1, data1)
              c2 == Constructed(c1.dom, 2, id2, isin2, data2)
          IN  /\ dom = c2.dom
              /\ widget = (1 :> c1.widget) @@ (2 :> c2.widget)
              /\ loads = (IF HasIsin(isin1) THEN c1.load ELSE <<>>)
                            \o (IF HasIsin(isin2) THEN c2.load ELSE <<>>)

SpecTwo == InitTwo /\ [][Next]_vars

(* ============================== claims ================================ *)
\* Helpers of the statements below (not part of the program).
Returned == pc = "done" /\ Len(couponsData) > 0
AllDatesParse == \A i \in DOMAIN couponsData : ~IsNaN(couponsData[i].coupondate)
\* 0-based index, in sortedCoupons, of the first record dated on or after today
AnchorExists == \E i \in DOMAIN sortedCoupons : IsUpcoming(sortedCoupons[i], currentDate)
AnchorIndex == FindIndex(sortedCoupons, currentDate)
\* the record of sortedCoupons behind the k-th entry of the result
WindowStart == StartIndex(FirstUpcomingIndex(sortedCoupons, currentDate))
Source(k) == sortedCoupons[WindowStart + k]
CurrentEntries == {k \in DOMAIN result : result[k].current}

\* C1: with parseable dates and an anchor, the returned window has at most 5 entries.
C1_WindowAtMostFive ==
    (Returned /\ AllDatesParse /\ AnchorExists) => Len(result) <= 5

\* C2: at most one entry of the result is current, and it is the entry of the
\* first sorted record dated on or after today (duplicated dates included).
C2_AtMostOneCurrent ==
    Returned =>
        /\ Cardinality(CurrentEntries) <= 1
        /\ \A k \in CurrentEntries : AnchorExists /\ WindowStart + k - 1 = AnchorIndex

\* C6: entries before today are disabled and not current; entries after today
\* other than the anchor have neither flag; the anchor is current and not
\* disabled; no entry is both current and disabled.
C6_FlagsByDate ==
    Returned =>
        \A k \in DOMAIN result :
            LET d == Source(k).coupondate
                isAnchor == AnchorExists /\ WindowStart + k - 1 = AnchorIndex
            IN  /\ (~IsNaN(d) /\ d.time < currentDate)
                       => (result[k].disabled /\ ~result[k].current)
                /\ (~IsNaN(d) /\ d.time > currentDate /\ ~isAnchor)
                       => (~result[k].disabled /\ ~result[k].current)
                /\ isAnchor => (result[k].current /\ ~result[k].disabled)
                /\ ~(result[k].current /\ result[k].disabled)

\* C7: an anchor at sorted index f >= 2 followed by at least two records gives
\* exactly the five records sorted[f-2 .. f+2].
C7_TwoPastAnchorTwoFuture ==
    (Returned /\ AnchorExists /\ AnchorIndex >= 2 /\ AnchorIndex + 2 <= Len(sortedCoupons) - 1) =>
        /\ Len(result) = 5
        /\ \A k \in 1 .. 5 :
              k \in DOMAIN result /\
              result[k] = MapCoupon(sortedCoupons[AnchorIndex - 2 + k], currentDate,
                                    sortedCoupons[AnchorIndex + 1].coupondate)

\* C8: an unparseable date sorts after every valid date and counts as dated on
\* or after today in the search for the first upcoming record.
C8_InvalidDateIsGreatest ==
    Returned =>
        /\ \A i, j \in DOMAIN sortedCoupons :
              (IsNaN(sortedCoupons[i].coupondate) /\ ~IsNaN(sortedCoupons[j].coupondate))
                  => j < i
        /\ \A i \in DOMAIN sortedCoupons :
              IsNaN(sortedCoupons[i].coupondate)
                  => FirstUpcomingIndex(sortedCoupons, currentDate) <= i - 1

\* C10: with parseable dates the result is in non-decreasing date order and is
\* one contiguous run of the chronologically sorted input.
CountOf(s, t) == Cardinality({i \in DOMAIN s : s[i].coupondate.time = t})
C10_SortedContiguousRun ==
    (Returned /\ AllDatesParse) =>
        /\ \A i, j \in DOMAIN result :
              i < j => result[i].paymentDate.day <= result[j].paymentDate.day
        /\ Len(sortedCoupons) = Len(couponsData)
        /\ \A t \in Times : CountOf(sortedCoupons, t) = CountOf(couponsData, t)
        /\ \A i, j \in DOMAIN sortedCoupons :
              i < j => sortedCoupons[i].coupondate.time <= sortedCoupons[j].coupondate.time
        /\ \E k \in 0 .. Len(sortedCoupons) - Len(result) :
              \A i \in DOMAIN result :
                  /\ ~result[i].paymentDate.nan
                  /\ result[i].paymentDate.day = sortedCoupons[k + i].coupondate.time

\* C10 witness: an input given out of order whose window is a proper part of it.
C10_Witness ==
    /\ Returned /\ AllDatesParse
    /\ \E i, j \in DOMAIN couponsData :
          i < j /\ couponsData[i].coupondate.time > couponsData[j].coupondate.time
    /\ Len(result) >= 3
    /\ Len(result) < Len(couponsData)
    /\ result[1].paymentDate.day < result[Len(result)].paymentDate.day

(* ------------------------- claims on the widget ----------------------- *)
\* load i leaves its last await in this step
Settles(i) == Pending(i) /\ loads'[i].stage \in {"done", "failed"}
\* the most recently started load of widget w
LatestLoad(w) ==
    CHOOSE j \in DOMAIN loads :
        loads[j].w = w /\ \A k \in DOMAIN loads : loads[k].w = w => k <= j
Shown(w) == dom[Container(w)]

\* C3: of two loads of a widget, only the most recently started one decides
\* what is shown once both have settled: a response of the earlier load that
\* arrives after the latest load has settled changes neither data nor view.
C3_OnlyLatestLoadUpdates ==
    [][\A i \in DOMAIN loads :
          (/\ Settles(i)
           /\ i # LatestLoad(loads[i].w)
           /\ loads[LatestLoad(loads[i].w)].stage \in {"done", "failed"})
              => /\ widget'[loads[i].w].data = widget[loads[i].w].data
                 /\ dom'[Container(loads[i].w)] = Shown(loads[i].w)]_vars

\* C4: a load that fails is caught in loadData: when it settles the view shows
\* the error state with a message, and no load's promise ever rejects.
C4_FailuresCaught ==
    [][/\ \A i \in DOMAIN loads :
             (Pending(i) /\ loads'[i].stage = "failed")
                 => /\ loads'[i].promise = "fulfilled"
                    /\ dom'[Container(loads[i].w)].kind = "error"
                    /\ dom'[Container(loads[i].w)].message # <<>>
                    /\ dom'[Container(loads[i].w)].items = <<>>
       /\ \A i \in DOMAIN loads' : loads'[i].promise # "rejected"]_vars

\* C4 witness: a load has failed, its promise is fulfilled, the error is shown.
C4_Witness ==
    \E i \in DOMAIN loads :
        /\ loads[i].stage = "failed"
        /\ loads[i].promise = "fulfilled"
        /\ Shown(loads[i].w).kind = "error"

\* C5: a container emptied by destroy() stays empty when a load that was in
\* flight settles, whether it succeeds or fails.
C5_DestroyedStaysEmpty ==
    [][\A i \in DOMAIN loads :
          (Settles(i) /\ Shown(loads[i].w) = Cleared)
              => dom'[Container(loads[i].w)] = Cleared]_vars

\* C9: while the fetch of a load is pending the loading state is not
\* replaced; stated for the response of another load of the same widget, which
\* must leave the loading state in place.
C9_LoadingWhilePending ==
    [][\A i, j \in DOMAIN loads :
          (/\ Settles(i)
           /\ j # i
           /\ loads[j].w = loads[i].w
           /\ loads[j].stage = "fetch"
           /\ Shown(loads[i].w).kind = "loading")
              => dom'[Container(loads[i].w)].kind = "loading"]_vars

(* ---------------------- claims C11 .. C18 ------------------------------ *)
\* C11: the call leaves the caller's sequence as it was: the same records, in
\* the same order, with the same field values.
C11_InputUnchanged ==
    [][(pc = "call" /\ pc' = "done") => couponsData' = couponsData]_vars

\* C11 witness: the call has returned for an input the sort had to reorder.
C11_Witness ==
    /\ Returned
    /\ Len(couponsData) >= 3
    /\ sortedCoupons # couponsData
    /\ \E i, j \in DOMAIN couponsData :
          i < j /\ CompareDates(couponsData[i], couponsData[j]) > 0

\* C12: the rate is the record's value followed by '%' whenever the record
\* has a rate (0 included) and '-' only when it has none; likewise the amount
\* with the rouble sign.
Formatted(v, unit) ==
    IF v.present THEN [dash |-> FALSE, num |-> v.num, unit |-> unit]
    ELSE [dash |-> TRUE, num |-> 0, unit |-> ""]
C12_DashOnlyWhenAbsent ==
    Returned =>
        \A k \in DOMAIN result :
            /\ result[k].rate = Formatted(Source(k).valueprc, "%")
            /\ result[k].amount = Formatted(Source(k).value_rub, "rub")

\* C13: a response with a success status whose body parses but holds no
\* coupons list, or an empty one, does not end in the error state: the data
\* becomes the empty sequence and the view shows the empty message.
GotNoCoupons(i) ==
    /\ loads[i].stage = "json"
    /\ i \in DOMAIN received'
    /\ received'[i].kind \in {"nocoupons", "coupons"}
    /\ ExtractCoupons(received'[i]) = <<>>
C13_NoCouponsShowsEmpty ==
    [][\A i \in DOMAIN loads :
          GotNoCoupons(i)
              => /\ loads'[i].stage = "done"
                 /\ widget'[loads[i].w].data = <<>>
                 /\ dom'[Container(loads[i].w)] = View("empty", <<>>, <<EmptyMessage>>)]_vars

\* C13 witness: a load that received no coupons is done and the empty message is shown.
C13_Witness ==
    \E i \in DOMAIN received :
        /\ received[i].kind = "nocoupons"
        /\ loads[i].stage = "done"
        /\ widget[loads[i].w].data = <<>>
        /\ Shown(loads[i].w).kind = "empty"

\* C14: when every record of a non-empty input is dated strictly before
\* today, the first-upcoming index is the length and the window is the last
\* min(5, length) records of the sorted sequence.
AllInPast ==
    \A i \in DOMAIN couponsData :
        ~IsNaN(couponsData[i].coupondate) /\ couponsData[i].coupondate.time < currentDate
C14_AllPastShowsLastFive ==
    (Returned /\ AllInPast) =>
        LET len == Len(sortedCoupons)
            n == Min(5, len)
        IN  /\ FirstUpcomingIndex(sortedCoupons, currentDate) = len
            /\ Len(result) = n
            /\ \A k \in 1 .. n :
                  k \in DOMAIN result /\
                  result[k] = MapCoupon(sortedCoupons[len - n + k], currentDate, NoDate)

\* C15: ten records with strictly increasing dates, numbered 0..9 in
\* chronological order, and a today strictly between record 4 and record 5.
\* Record(k) is the record with exactly k records dated before it.
Record(k) ==
    CHOOSE r \in {couponsData[i] : i \in DOMAIN couponsData} :
        Cardinality({i \in DOMAIN couponsData :
                        couponsData[i].coupondate.time < r.coupondate.time}) = k
TenRecordsTodayAfterFifth ==
    /\ Len(couponsData) = 10
    /\ AllDatesParse
    /\ \A i, j \in DOMAIN couponsData :
          i # j => couponsData[i].coupondate.time # couponsData[j].coupondate.time
    /\ Record(4).coupondate.time < currentDate
    /\ currentDate < Record(5).coupondate.time
EntryOf(k, cur, dis) ==
    [MapCoupon(Record(k), currentDate, NoDate) EXCEPT !.current = cur, !.disabled = dis]

\* C15 as stated: the window is records 2..7, record 5 current, records 2..4
\* disabled, records 6..7 neither.
C15_WindowTwoToSeven ==
    (pc = "done" /\ TenRecordsTodayAfterFifth) =>
        /\ Len(result) = 6
        /\ \A k \in 2 .. 7 :
              (k - 1) \in DOMAIN result /\
              result[k - 1] = EntryOf(k, k = 5, k < 5)

\* C15 amended: the window is records 3..7 (5 entries), record 5 current,
\* records 3..4 disabled, records 6..7 neither.
C15_WindowThreeToSeven ==
    (pc = "done" /\ TenRecordsTodayAfterFifth) =>
        /\ Len(result) = 5
        /\ \A k \in 3 .. 7 : result[k - 2] = EntryOf(k, k = 5, k < 5)

\* C15 witness: the call has returned for ten records given out of order.
C15_Witness ==
    /\ pc = "done" /\ TenRecordsTodayAfterFifth
    /\ couponsData # sortedCoupons
    /\ Len(result) = 5
    /\ result[3].current

\* The status getCouponStatus returned for the k-th entry of the result.
StatusOf(k) ==
    GetCouponStatus(Source(k).coupondate, currentDate,
                    CurrentCouponDate(sortedCoupons,
                                      FirstUpcomingIndex(sortedCoupons, currentDate)))
DatedToday(k) == ~IsNaN(Source(k).coupondate) /\ Source(k).coupondate.time = currentDate
AnchorDate == sortedCoupons[AnchorIndex + 1].coupondate

\* C16 as stated: inside convertMOEXData the classifier never returns
\* 'upcoming'; every window record dated today is classified 'current'.
C16_NeverUpcoming ==
    Returned =>
        \A k \in DOMAIN result :
            /\ StatusOf(k) # "upcoming"
            /\ DatedToday(k) => StatusOf(k) = "current"

\* C16 amended: the anchor, and every window record whose date string equals
\* the anchor's, is classified 'current' even when dated today; 'upcoming' is
\* returned exactly for the window records dated today whose date string
\* differs from the anchor's.
C16_UpcomingOnlyForOtherSpelling ==
    Returned =>
        \A k \in DOMAIN result :
            /\ (AnchorExists /\ Source(k).coupondate = AnchorDate)
                   => (StatusOf(k) = "current" /\ result[k].current)
            /\ StatusOf(k) = "upcoming"
                   <=> (DatedToday(k) /\ AnchorExists /\ Source(k).coupondate # AnchorDate)
            /\ StatusOf(k) = "upcoming" => (~result[k].current /\ ~result[k].disabled)

\* C16 witness: the window holds the anchor, dated today and current, and a
\* second record dated today that the classifier called 'upcoming'.
C16_Witness ==
    /\ Returned
    /\ \E k, n \in DOMAIN result :
          /\ DatedToday(k) /\ StatusOf(k) = "current"
          /\ DatedToday(n) /\ StatusOf(n) = "upcoming"

\* C18: for a non-empty input 0 <= startIndex <= firstUpcomingIndex <= length
\* and startIndex < endIndex <= length, so the window is not empty; when an
\* anchor exists it is in the window at position firstUpcomingIndex -
\* startIndex, after at most 2 entries.
C18_IndicesInRange ==
    Returned =>
        LET len == Len(sortedCoupons)
            f == FirstUpcomingIndex(sortedCoupons, currentDate)
            start == StartIndex(f)
            end == EndIndex(len, f)
        IN  /\ 0 <= start /\ start <= f /\ f <= len
            /\ start < end /\ end <= len
            /\ Len(result) = end - start
            /\ Len(result) > 0
            /\ AnchorExists =>
                  /\ f < len
                  /\ f - start <= 2
                  /\ (f - start + 1) \in DOMAIN result
                  /\ result[f - start + 1].paymentDate = FormatDate(sortedCoupons[f + 1].coupondate)
                  /\ result[f - start + 1].current
                  /\ \A k \in 1 .. (f - start) : ~IsUpcoming(sortedCoupons[start + k], currentDate)

\* C18 witness: an anchor with three records before it, two of them in the window.
C18_Witness ==
    /\ Returned /\ AnchorExists
    /\ AnchorIndex = 3
    /\ result[3].current
    /\ result[1].disabled /\ result[2].disabled

\* C17: an operation on one widget instance (load, updateData, destroy, or a
\* response of one of its loads) never changes what the container of another
\* instance displays, whatever containerIds the two were constructed with.
StepOf(w) ==
    \/ \E x \in Isins \cup {""} : Load(w, x)
    \/ \E d \in DataChoices : UpdateData(w, d)
    \/ Destroy(w)
    \/ \E i \in DOMAIN loads : loads[i].w = w /\ (FetchSettles(i) \/ JsonSettles(i))
C17_NoCrossInstanceEffect ==
    [][\A w \in DOMAIN widget, v \in DOMAIN widget :
          (w # v /\ StepOf(w)) => dom'[Container(v)] = dom[Container(v)]]_vars

=============================================================================
